---- MODULE Spec2Model ----
(***************************************************************************)
(* Model of the OCR HTTP service                                           *)
(* src/code/agents/ocr_http_stub/docker/ocr_service.py:                    *)
(* OCRProcessor.preprocess_image / extract_text_from_image /               *)
(* extract_text_from_pdf and the handlers process_ocr (POST /ocr) and      *)
(* process_batch_ocr (POST /ocr/batch).                                    *)
(*                                                                         *)
(* A worker handles one request.  Every file-system call and every engine  *)
(* call of the code is one step of the worker that makes it; a guarded     *)
(* delete (if os.path.exists(p): os.unlink(p)) is one step.                *)
(*                                                                         *)
(* Conventions:                                                            *)
(*  - a text is a sequence of one-character strings (" " is whitespace);   *)
(*    a page marker of a PDF's combined text is one element holding the    *)
(*    whole marker line;                                                   *)
(*  - a confidence is held in hundredths (9050 stands for 90.50), which    *)
(*    is what round(x, 2) leaves of it;                                    *)
(*  - the echo fields languages_used / processing_settings of a result     *)
(*    are copies of the request's parameters and are left out.             *)
(***************************************************************************)
EXTENDS Integers, Sequences, FiniteSets, TLC

(* ------------------------------ bounds -------------------------------- *)

MaxTokens == 3

MaxTextLen == 3

MaxPages == 3

MaxFiles == 2

\* The seconds the clock shows while the requests are served.
Seconds == {0, 1}

Workers == {1, 2}

(* ------------------------- program constants -------------------------- *)

max_file_size == 50 * 1024 * 1024

supported_formats == {".png", ".jpg", ".jpeg", ".tiff", ".bmp", ".pdf"}

(* --------------------------- pure helpers ----------------------------- *)

SeqsUpTo(S, n) == UNION {[1..k -> S] : k \in 0..n}

RECURSIVE SumSeq(_)
SumSeq(s) == IF s = <<>> THEN 0 ELSE Head(s) + SumSeq(Tail(s))

Markers == <<"=== Page 1 ===", "=== Page 2 ===", "=== Page 3 ===",
             "=== Page 4 ===", "=== Page 5 ===">>

IsMarker(c) == \E i \in DOMAIN Markers : Markers[i] = c

IsSpace(c) == c \in {" ", "\n"}

RECURSIVE LStrip(_)
LStrip(s) == IF s # <<>> /\ IsSpace(Head(s)) THEN LStrip(Tail(s)) ELSE s

RECURSIVE RStrip(_)
RStrip(s) ==
    IF s # <<>> /\ IsSpace(s[Len(s)]) THEN RStrip(SubSeq(s, 1, Len(s) - 1)) ELSE s

Strip(s) == RStrip(LStrip(s))

\* len(text.split(" ")): one more than the number of blanks, 1 for the empty text.
SplitOnBlankCount(s) == 1 + Cardinality({i \in DOMAIN s : IsSpace(s[i])})

\* len(text.split()): the number of maximal runs of non-whitespace; a marker
\* line "=== Page N ===" is four such runs.
SplitCount(s) ==
    LET starts == {i \in DOMAIN s :
                      /\ ~IsSpace(s[i]) /\ ~IsMarker(s[i])
                      /\ (i = 1 \/ IsSpace(s[i - 1]))}
        marks  == {i \in DOMAIN s : IsMarker(s[i])}
    IN  Cardinality(starts) + 4 * Cardinality(marks)

\* len(text): a marker line of a one-digit page is 14 characters.
CharCount(s) ==
    Len(s) + 13 * Cardinality({i \in DOMAIN s : IsMarker(s[i])})

\* [int(conf) for conf in data['conf'] if int(conf) >= 0]: the filter off by one.
PositiveConfsOrZero(data) == SelectSeq(data, LAMBDA c : c >= 0)

\* [int(conf) for conf in data['conf'] if int(conf) > 0]
PositiveConfs(data) == SelectSeq(data, LAMBDA c : c > 0)

\* num / den rounded to the nearest integer, for integers num >= 0, den > 0:
\* with num in hundredths this is round(x, 2) of the quotient x, in hundredths.
\* A quotient that lies exactly between two hundredths is rounded as its binary
\* floating-point representation falls, which the integers do not decide: both
\* neighbours are possible results there.
Round2(num, den) ==
    LET q == num \div den
        r == num % den
    IN  IF 2 * r < den THEN {q}
        ELSE IF 2 * r > den THEN {q + 1}
        ELSE {q, q + 1}

\* sum(confidences) / len(confidences) if confidences else 0, then round(.., 2)
AvgConfidence(confidences) ==
    IF confidences = <<>> THEN {0}
    ELSE Round2(100 * SumSeq(confidences), Len(confidences))

(* ---------------------------- input domains --------------------------- *)

\* What the engine reports for one image: the per-token confidences of
\* image_to_data and the raw string of image_to_string.
ConfVals == {-1, 0, 1, 33, 100}

Chars == {"a", " "}

AllContents == [conf : SeqsUpTo(ConfVals, MaxTokens), text : SeqsUpTo(Chars, MaxTextLen)]

Blank == [conf |-> <<-1, 0>>, text |-> <<" ">>]

TextA == [conf |-> <<-1, 96, 85>>, text |-> <<"a", " ", "a">>]

TextB == [conf |-> <<33>>, text |-> <<"a", " ">>]

\* A page where the engine scores a token but reads no text.
Noise == [conf |-> <<50>>, text |-> <<" ">>]

PageContents == {Blank, TextA, TextB, Noise}

\* An uploaded file: its declared filename, its size in bytes and what it holds
\* (one image, or the pages of a PDF, each as what the engine reports for it).
File(name, size, content) == [filename |-> name, size |-> size, content |-> content]

Sizes == {1, max_file_size, max_file_size + 1}

\* Path(filename).suffix.lower() of the filenames the requests use.
Suffix(filename) ==
    CASE filename = "a.png" -> ".png"
      [] filename = "B.PDF" -> ".pdf"
      [] filename = "c.txt" -> ".txt"
      [] OTHER -> ""

\* POST /ocr requests: the validation cases over a few files, and the
\* extraction cases over every image content and every page sequence.
OcrRequests ==
    {[endpoint |-> "ocr", files |-> <<>>, params_ok |-> TRUE, preprocess |-> TRUE]}
    \cup {[endpoint |-> "ocr", files |-> <<File(n, sz, <<TextA>>)>>,
           params_ok |-> ok, preprocess |-> TRUE] :
             n \in {"", "a.png", "B.PDF", "c.txt"}, sz \in Sizes, ok \in BOOLEAN}
    \cup {[endpoint |-> "ocr", files |-> <<File("a.png", 1, <<c>>)>>,
           params_ok |-> TRUE, preprocess |-> TRUE] : c \in AllContents}
    \cup {[endpoint |-> "ocr", files |-> <<File("a.png", 1, <<c>>)>>,
           params_ok |-> TRUE, preprocess |-> FALSE] : c \in PageContents}
    \cup {[endpoint |-> "ocr", files |-> <<File("B.PDF", 1, ps)>>,
           params_ok |-> TRUE, preprocess |-> TRUE] :
             ps \in SeqsUpTo(PageContents, MaxPages)}

BatchFiles ==
    {File("", 1, <<>>), File("c.txt", 1, <<>>)}
    \cup {File("a.png", 1, <<c>>) : c \in {Blank, TextA}}
    \cup {File("B.PDF", 1, ps) : ps \in {<<>>, <<TextA>>, <<Blank, TextA>>}}

\* POST /ocr/batch requests.
BatchRequests ==
    {[endpoint |-> "batch", files |-> fs_, params_ok |-> ok, preprocess |-> TRUE] :
        fs_ \in SeqsUpTo(BatchFiles, MaxFiles), ok \in BOOLEAN}

Requests == OcrRequests \cup BatchRequests

\* The requests two concurrent workers serve.
ConcRequests ==
    {[endpoint |-> "ocr", files |-> <<File("a.png", 1, <<c>>)>>,
      params_ok |-> TRUE, preprocess |-> TRUE] : c \in {TextA, TextB}}
    \cup {[endpoint |-> "ocr", files |-> <<File("B.PDF", 1, <<c>>)>>,
      params_ok |-> TRUE, preprocess |-> TRUE] : c \in {TextA, TextB}}
    \cup {[endpoint |-> "batch", files |-> <<File("a.png", 1, <<TextB>>)>>,
      params_ok |-> TRUE, preprocess |-> TRUE]}

(* -------------------------------- state ------------------------------- *)

VARIABLES
    now,       \* datetime.now(), in whole seconds
    fs,        \* the temp directory: the files [path, owner, content, partial] in it
    foreign,   \* the kinds of access made to a temp file of another in-flight request
    pc,        \* each worker's position in its handler
    req,       \* each worker's request
    hnd,       \* the handler's locals: temp_path, file_ext, results, idx
    pdf,       \* extract_text_from_pdf's locals
    img,       \* extract_text_from_image's locals
    result,    \* the value the last extract_text_from_* call returned
    page_texts, \* history: the text of each page_result of the last PDF call, in order
    page_results, \* history: each page_result of the last PDF call, in order
    response   \* the HTTP response: [status, body]

vars ==
    <<now, fs, foreign, pc, req, hnd, pdf, img, result, page_texts, page_results,
      response>>

None == [none |-> TRUE]

(* ---------------------------- temp file paths -------------------------- *)

NoPath == [kind |-> "none", stamp |-> 0, name |-> "", n |-> 0, processed |-> FALSE]

\* temp_dir / f"upload_{datetime.now().strftime('%Y%m%d_%H%M%S')}{file_ext}"
UploadPath(ts, file_ext) ==
    [kind |-> "upload", stamp |-> ts, name |-> file_ext, n |-> 0, processed |-> FALSE]

\* temp_dir / f"batch_{datetime.now().strftime('%Y%m%d_%H%M%S')}_{file.filename}"
BatchPath(ts, filename) ==
    [kind |-> "batch", stamp |-> ts, name |-> filename, n |-> 0, processed |-> FALSE]

\* temp_dir / f"page_{i+1}.png"
PagePath(n) ==
    [kind |-> "page", stamp |-> 0, name |-> ".png", n |-> n, processed |-> FALSE]

\* temp_dir / f"processed_{Path(image_path).name}"
ProcessedPath(image_path) == [image_path EXCEPT !.processed = TRUE]

Exists(path) == \E f \in fs : f.path = path

FileAt(path) == CHOOSE f \in fs : f.path = path

InFlight(w) == pc[w] \notin {"idle", "done"}

\* The temp directory after w writes content to path (created or overwritten).
Write(w, path, content) ==
    {f \in fs : f.path # path}
    \cup {[path |-> path, owner |-> w, content |-> content, partial |-> FALSE]}

\* A write that raised after the file was opened: a truncated file is left.
WritePartial(w, path) ==
    {f \in fs : f.path # path}
    \cup {[path |-> path, owner |-> w, content |-> <<>>, partial |-> TRUE]}

\* The file at path can be opened and decoded.
Readable(path) == Exists(path) /\ ~FileAt(path).partial

\* if os.path.exists(path): pass -- the file is looked for and left in place.
UnlinkNothing(path) == fs

\* if os.path.exists(path): os.unlink(path)
Unlink(path) == {f \in fs : f.path # path}

\* w touches path: recorded when the file there is one that another request,
\* still in flight, created.
Touched(w, path, op) ==
    IF Exists(path) /\ FileAt(path).owner # w /\ InFlight(FileAt(path).owner)
    THEN {op} ELSE {}

(* ------------------------------- results ------------------------------ *)

\* The except branch with a sentinel confidence instead of 0.
ImageErrorSentinel ==
    [text |-> <<>>, confidence |-> -1, error |-> "engine", word_count |-> 0,
     char_count |-> 0]

\* extract_text_from_image's except branch.
ImageError ==
    [text |-> <<>>, confidence |-> 0, error |-> "engine", word_count |-> 0,
     char_count |-> 0]

\* extract_text_from_pdf's except branch.
PdfError ==
    [text |-> <<>>, confidence |-> 0, error |-> "pdf", word_count |-> 0,
     char_count |-> 0, page_count |-> 0]

HasError(r) == "error" \in DOMAIN r

NoHnd == [temp_path |-> NoPath, file_ext |-> "", results |-> <<>>, idx |-> 0]

NoPdf == [pdf_path |-> NoPath, images |-> <<>>, i |-> 0, page_path |-> NoPath,
          all_text |-> <<>>, total_confidence |-> 0, page_count |-> 0, ret |-> ""]

\* failed is history: a stage of preprocess_image failed in this call.
NoImg == [image_path |-> NoPath, preprocess |-> FALSE, processed_path |-> NoPath,
          data |-> <<>>, text |-> <<>>, ret |-> "", failed |-> FALSE]

Init ==
    /\ now = 0
    /\ fs = {}
    /\ foreign = {}
    /\ pc = [w \in Workers |-> "idle"]
    /\ req = [w \in Workers |-> None]
    /\ hnd = [w \in Workers |-> NoHnd]
    /\ pdf = [w \in Workers |-> NoPdf]
    /\ img = [w \in Workers |-> NoImg]
    /\ result = [w \in Workers |-> None]
    /\ page_texts = [w \in Workers |-> <<>>]
    /\ page_results = [w \in Workers |-> <<>>]
    /\ response = [w \in Workers |-> None]

(* ----------------------------- the clock ------------------------------ *)

\* A second passes.  The clock is read where a temp path is chosen, so it is
\* let advance only when a handler is about to choose one.
Tick ==
    /\ \E w \in Workers : pc[w] \in {"ocr_validate", "batch_loop"}
    /\ now + 1 \in Seconds
    /\ now' = now + 1
    /\ UNCHANGED <<fs, foreign, pc, req, hnd, pdf, img, result, page_texts, page_results, response>>

(* ------------------------ extract_text_from_image --------------------- *)

\* The call extract_text_from_image(image_path, languages, psm, oem, preprocess);
\* ret is where the caller continues with the returned value.
CallImage(w, image_path, preprocess, ret) ==
    /\ img' = [img EXCEPT ![w] = [NoImg EXCEPT !.image_path = image_path,
                                               !.preprocess = preprocess,
                                               !.ret = ret]]
    /\ pc' = [pc EXCEPT ![w] = "img_preprocess"]

\* processed_path = self.preprocess_image(image_path) if preprocess else image_path.
\* preprocess_image reads the image, writes processed_<name> and returns that
\* path, or returns image_path when any of its stages raises.  cv2.imwrite
\* reports a write it could not make either by raising or by returning False;
\* the code does not look at the returned value, so after a write that failed
\* that way processed_<name> is returned although nothing was written there.
ImgPreprocess(w) ==
    /\ pc[w] = "img_preprocess"
    /\ LET f == img[w]
           processed == ProcessedPath(f.image_path)
       IN  \/ /\ f.preprocess
              /\ Readable(f.image_path)
              /\ fs' = Write(w, processed, FileAt(f.image_path).content)
              /\ foreign' = foreign \cup Touched(w, f.image_path, "read")
                                    \cup Touched(w, processed, "overwrite")
              /\ img' = [img EXCEPT ![w].processed_path = processed]
           \/ /\ f.preprocess
              /\ img' = [img EXCEPT ![w].processed_path = f.image_path,
                                    ![w].failed = TRUE]
              /\ UNCHANGED <<fs, foreign>>
           \/ /\ f.preprocess
              /\ Readable(f.image_path)
              /\ img' = [img EXCEPT ![w].processed_path = processed,
                                    ![w].failed = TRUE]
              /\ foreign' = foreign \cup Touched(w, f.image_path, "read")
              /\ UNCHANGED fs
           \/ /\ ~f.preprocess
              /\ img' = [img EXCEPT ![w].processed_path = f.image_path]
              /\ UNCHANGED <<fs, foreign>>
    /\ pc' = [pc EXCEPT ![w] = "img_data"]
    /\ UNCHANGED <<now, req, hnd, pdf, result, page_texts, page_results, response>>

\* The except branch of extract_text_from_image: the error result is returned;
\* nothing is cleaned up.
ImgRaise(w) ==
    /\ result' = [result EXCEPT ![w] = ImageError]
    /\ pc' = [pc EXCEPT ![w] = img[w].ret]
    /\ img' = [img EXCEPT ![w] = NoImg]
    /\ UNCHANGED foreign

\* data = pytesseract.image_to_data(processed_path, ...)
ImgData(w) ==
    /\ pc[w] = "img_data"
    /\ LET p == img[w].processed_path
       IN  \/ /\ Readable(p)
              /\ img' = [img EXCEPT ![w].data = FileAt(p).content[1].conf]
              /\ foreign' = foreign \cup Touched(w, p, "read")
              /\ pc' = [pc EXCEPT ![w] = "img_string"]
              /\ UNCHANGED result
           \/ ImgRaise(w)
    /\ UNCHANGED <<now, fs, req, hnd, pdf, page_texts, page_results, response>>

\* text = pytesseract.image_to_string(processed_path, ...).strip()
ImgString(w) ==
    /\ pc[w] = "img_string"
    /\ LET p == img[w].processed_path
       IN  \/ /\ Readable(p)
              /\ img' = [img EXCEPT ![w].text = Strip(FileAt(p).content[1].text)]
              /\ foreign' = foreign \cup Touched(w, p, "read")
              /\ pc' = [pc EXCEPT ![w] = "img_cleanup"]
              /\ UNCHANGED result
           \/ ImgRaise(w)
    /\ UNCHANGED <<now, fs, req, hnd, pdf, page_texts, page_results, response>>

\* The confidence score, the cleanup of the processed image and the result.
ImgReturn(w) ==
    /\ pc[w] = "img_cleanup"
    /\ LET f == img[w]
           confidences == PositiveConfs(f.data)
           cleanup == f.processed_path # f.image_path
       IN  \E avg_confidence \in AvgConfidence(confidences) :
              /\ fs' = IF cleanup THEN Unlink(f.processed_path) ELSE fs
              /\ foreign' = IF cleanup
                            THEN foreign \cup Touched(w, f.processed_path, "delete")
                            ELSE foreign
              /\ result' = [result EXCEPT ![w] =
                               [text |-> f.text,
                                confidence |-> avg_confidence,
                                word_count |-> SplitCount(f.text),
                                char_count |-> CharCount(f.text)]]
              /\ pc' = [pc EXCEPT ![w] = f.ret]
              /\ img' = [img EXCEPT ![w] = NoImg]
    /\ UNCHANGED <<now, req, hnd, pdf, page_texts, page_results, response>>

(* ------------------------- extract_text_from_pdf ---------------------- *)

\* "\n\n".join(all_text)
RECURSIVE Join(_)
Join(texts) ==
    IF texts = <<>> THEN <<>>
    ELSE IF Len(texts) = 1 THEN texts[1]
    ELSE texts[1] \o <<"\n", "\n">> \o Join(Tail(texts))

\* f"=== Page {i+1} ===\n{page_result['text']}", i the 0-based index of the page
PageEntry(i, text) == <<Markers[i + 1], "\n">> \o text

\* if page_result has no error: a page counted although its text is empty.
ContributesUnlessError(page_result) == ~HasError(page_result)

\* if page_result.get("confidence"): a page counted for its score, not its text.
ContributesIfScored(page_result) == page_result.confidence > 0

\* if page_result.get("text"):
Contributes(page_result) == page_result.text # <<>>

\* The call extract_text_from_pdf(pdf_path, languages, psm, oem).
CallPdf(w, pdf_path, ret) ==
    /\ pdf' = [pdf EXCEPT ![w] = [NoPdf EXCEPT !.pdf_path = pdf_path, !.ret = ret]]
    /\ page_texts' = [page_texts EXCEPT ![w] = <<>>]
    /\ page_results' = [page_results EXCEPT ![w] = <<>>]
    /\ pc' = [pc EXCEPT ![w] = "pdf_convert"]

\* images = convert_from_path(pdf_path, dpi=300), or the except branch.
PdfConvert(w) ==
    /\ pc[w] = "pdf_convert"
    /\ LET f == pdf[w]
       IN  \/ /\ Readable(f.pdf_path)
              /\ pdf' = [pdf EXCEPT ![w].images = FileAt(f.pdf_path).content]
              /\ foreign' = foreign \cup Touched(w, f.pdf_path, "read")
              /\ pc' = [pc EXCEPT ![w] = "pdf_loop"]
              /\ UNCHANGED result
           \/ /\ result' = [result EXCEPT ![w] = PdfError]
              /\ pc' = [pc EXCEPT ![w] = f.ret]
              /\ pdf' = [pdf EXCEPT ![w] = NoPdf]
              /\ UNCHANGED foreign
    /\ UNCHANGED <<now, fs, req, hnd, img, page_texts, page_results, response>>

\* The head of the page loop: the next page is saved as page_<i+1>.png and
\* extracted with preprocessing on; after the last page the result is returned.
PdfLoop(w) ==
    /\ pc[w] = "pdf_loop"
    /\ LET f == pdf[w]
           page_path == PagePath(f.i + 1)
           combined_text == Join(f.all_text)
       IN  IF f.i < Len(f.images)
           THEN /\ fs' = Write(w, page_path, <<f.images[f.i + 1]>>)
                /\ foreign' = foreign \cup Touched(w, page_path, "overwrite")
                /\ pdf' = [pdf EXCEPT ![w].page_path = page_path]
                /\ CallImage(w, page_path, TRUE, "pdf_page_done")
                /\ UNCHANGED result
           ELSE \E avg_confidence \in
                     (IF f.page_count > 0
                      THEN Round2(f.total_confidence, f.page_count) ELSE {0}) :
                  /\ result' = [result EXCEPT ![w] =
                                   [text |-> combined_text,
                                    confidence |-> avg_confidence,
                                    word_count |-> SplitCount(combined_text),
                                    char_count |-> CharCount(combined_text),
                                    page_count |-> Len(f.images),
                                    pages_processed |-> f.page_count]]
                  /\ pc' = [pc EXCEPT ![w] = f.ret]
                  /\ pdf' = [pdf EXCEPT ![w] = NoPdf]
                  /\ UNCHANGED <<fs, foreign, img>>
    /\ UNCHANGED <<now, req, hnd, page_texts, page_results, response>>

\* The rest of the loop body: the page's text is kept if it is not empty, and
\* the page image is deleted.
PdfPageDone(w) ==
    /\ pc[w] = "pdf_page_done"
    /\ LET f == pdf[w]
           page_result == result[w]
           keep == Contributes(page_result)
       IN  /\ pdf' = [pdf EXCEPT ![w] =
                        [f EXCEPT
                           !.all_text = IF keep
                                        THEN Append(@, PageEntry(f.i, page_result.text))
                                        ELSE @,
                           !.total_confidence = IF keep
                                                THEN @ + page_result.confidence ELSE @,
                           !.page_count = IF keep THEN @ + 1 ELSE @,
                           !.i = @ + 1,
                           !.page_path = NoPath]]
           /\ page_texts' = [page_texts EXCEPT ![w] = Append(@, page_result.text)]
           /\ page_results' = [page_results EXCEPT ![w] = Append(@, page_result)]
           /\ fs' = Unlink(f.page_path)
           /\ foreign' = foreign \cup Touched(w, f.page_path, "delete")
    /\ result' = [result EXCEPT ![w] = None]
    /\ pc' = [pc EXCEPT ![w] = "pdf_loop"]
    /\ UNCHANGED <<now, req, hnd, img, response>>

(* ------------------------------ responses ----------------------------- *)

\* return jsonify(body), status: the handler's locals die with it.
Respond(w, status, body) ==
    /\ response' = [response EXCEPT ![w] = [status |-> status, body |-> body]]
    /\ hnd' = [hnd EXCEPT ![w] = NoHnd]
    /\ pc' = [pc EXCEPT ![w] = "done"]

\* A request arrives at an idle worker.
Receive(w, requests) ==
    /\ pc[w] = "idle"
    /\ \E r \in requests :
          /\ req' = [req EXCEPT ![w] = r]
          /\ pc' = [pc EXCEPT ![w] = IF r.endpoint = "ocr" THEN "ocr_validate"
                                     ELSE "batch_validate"]
    /\ UNCHANGED <<now, fs, foreign, hnd, pdf, img, result, page_texts, page_results, response>>

(* ------------------------- process_ocr (POST /ocr) -------------------- *)

\* The checks of process_ocr in the order the code makes them, up to the
\* choice of temp_path.  int(request.form.get('psm')) raises on a value that is
\* no integer; the handler's except branch answers that with 500.
OcrValidate(w) ==
    /\ pc[w] = "ocr_validate"
    /\ LET r == req[w]
           file == r.files[1]
           file_ext == Suffix(file.filename)
       IN  IF r.files = <<>>
           THEN Respond(w, 400, [error |-> "No file provided"])
           ELSE IF file.filename = ""
           THEN Respond(w, 400, [error |-> "No file selected"])
           ELSE IF file.size > max_file_size
           THEN Respond(w, 400, [error |-> "File too large"])
           ELSE IF ~r.params_ok
           THEN Respond(w, 500, [error |-> "Internal server error"])
           ELSE IF file_ext \notin supported_formats
           THEN Respond(w, 400, [error |-> "Unsupported format"])
           ELSE /\ hnd' = [hnd EXCEPT ![w] = [NoHnd EXCEPT
                                                !.temp_path = UploadPath(now, file_ext),
                                                !.file_ext = file_ext]]
                /\ pc' = [pc EXCEPT ![w] = "ocr_save"]
                /\ UNCHANGED response
    /\ UNCHANGED <<now, fs, foreign, req, pdf, img, result, page_texts, page_results>>

\* file.save(temp_path), then the call of the extractor for the file's type.
\* A save that raises is outside the try/finally: the handler's except branch
\* answers 500 and what was written stays.
OcrSave(w) ==
    /\ pc[w] = "ocr_save"
    /\ LET h == hnd[w]
           file == req[w].files[1]
       IN  \/ /\ fs' = Write(w, h.temp_path, file.content)
              /\ foreign' = foreign \cup Touched(w, h.temp_path, "overwrite")
              /\ IF h.file_ext = ".pdf"
                 THEN CallPdf(w, h.temp_path, "ocr_finish") /\ UNCHANGED img
                 ELSE CallImage(w, h.temp_path, req[w].preprocess, "ocr_finish")
                      /\ UNCHANGED <<pdf, page_texts, page_results>>
              /\ UNCHANGED <<hnd, response>>
           \/ \E partial \in BOOLEAN :
                 /\ fs' = IF partial THEN WritePartial(w, h.temp_path) ELSE fs
                 /\ foreign' = IF partial
                               THEN foreign \cup Touched(w, h.temp_path, "overwrite")
                               ELSE foreign
                 /\ Respond(w, 500, [error |-> "Internal server error"])
                 /\ UNCHANGED <<pdf, img, page_texts, page_results>>
    /\ UNCHANGED <<now, req, result>>

\* result.update(metadata); return jsonify(result); finally: the upload is deleted.
OcrFinish(w) ==
    /\ pc[w] = "ocr_finish"
    /\ LET h == hnd[w]
           file == req[w].files[1]
       IN  /\ fs' = Unlink(h.temp_path)
           /\ foreign' = foreign \cup Touched(w, h.temp_path, "delete")
           /\ Respond(w, 200, [filename |-> file.filename, file_size |-> file.size]
                              @@ result[w])
    /\ result' = [result EXCEPT ![w] = None]
    /\ UNCHANGED <<now, req, pdf, img, page_texts, page_results>>

(* -------------------- process_batch_ocr (POST /ocr/batch) ------------- *)

\* results.insert(0, entry): newest first.
PrependResult(results, entry) == <<entry>> \o results

\* results.append(entry)
AppendResult(results, entry) == Append(results, entry)

\* An entry that is given an error field when pages of its PDF are missing
\* from pages_processed.
EntryFlaggingPartial(item, filename, fields) ==
    IF "pages_processed" \in DOMAIN fields /\ fields.pages_processed < fields.page_count
    THEN [item |-> item, filename |-> filename, error |-> "pages failed"] @@ fields
    ELSE [item |-> item, filename |-> filename] @@ fields

\* An entry of results; item is history: the index of the submitted file the
\* entry was produced from.
Entry(item, filename, fields) == [item |-> item, filename |-> filename] @@ fields

\* files = request.files.getlist('files'); the parameters; results = [].
BatchValidate(w) ==
    /\ pc[w] = "batch_validate"
    /\ LET r == req[w]
       IN  IF r.files = <<>>
           THEN Respond(w, 400, [error |-> "No files provided"])
           ELSE IF ~r.params_ok
           THEN Respond(w, 500, [error |-> "Batch processing failed"])
           ELSE /\ hnd' = [hnd EXCEPT ![w] = [NoHnd EXCEPT !.idx = 1]]
                /\ pc' = [pc EXCEPT ![w] = "batch_loop"]
                /\ UNCHANGED response
    /\ UNCHANGED <<now, fs, foreign, req, pdf, img, result, page_texts, page_results>>

\* The head of the loop over files, up to the choice of temp_path; after the
\* last file the BatchResult is returned.
BatchLoop(w) ==
    /\ pc[w] = "batch_loop"
    /\ LET h == hnd[w]
           files == req[w].files
           file == files[h.idx]
           file_ext == Suffix(file.filename)
           next == [h EXCEPT !.idx = @ + 1, !.temp_path = NoPath, !.file_ext = ""]
       IN  IF h.idx > Len(files)
           THEN Respond(w, 200,
                   [batch_results |-> h.results,
                    total_files |-> Len(files),
                    processed_files |->
                        Cardinality({k \in DOMAIN h.results : ~HasError(h.results[k])}),
                    failed_files |->
                        Cardinality({k \in DOMAIN h.results : HasError(h.results[k])})])
           ELSE IF file.filename = ""
           THEN /\ hnd' = [hnd EXCEPT ![w] = next]
                /\ UNCHANGED <<pc, response>>
           ELSE IF file_ext \notin supported_formats
           THEN /\ hnd' = [hnd EXCEPT ![w] =
                             [next EXCEPT !.results =
                                AppendResult(@, Entry(h.idx, file.filename,
                                                [error |-> "Unsupported format"]))]]
                /\ UNCHANGED <<pc, response>>
           ELSE /\ hnd' = [hnd EXCEPT ![w] =
                             [h EXCEPT !.temp_path = BatchPath(now, file.filename),
                                       !.file_ext = file_ext]]
                /\ pc' = [pc EXCEPT ![w] = "batch_save"]
                /\ UNCHANGED response
    /\ UNCHANGED <<now, fs, foreign, req, pdf, img, result, page_texts, page_results>>

\* file.save(temp_path), then the call of the extractor for the file's type.
\* A save that raises is caught by the item's except branch: an error entry is
\* appended, and what was written stays.
BatchSave(w) ==
    /\ pc[w] = "batch_save"
    /\ LET h == hnd[w]
           file == req[w].files[h.idx]
       IN  \/ /\ fs' = Write(w, h.temp_path, file.content)
              /\ foreign' = foreign \cup Touched(w, h.temp_path, "overwrite")
              /\ IF h.file_ext = ".pdf"
                 THEN CallPdf(w, h.temp_path, "batch_after") /\ UNCHANGED img
                 ELSE CallImage(w, h.temp_path, TRUE, "batch_after")
                      /\ UNCHANGED <<pdf, page_texts, page_results>>
              /\ UNCHANGED hnd
           \/ \E partial \in BOOLEAN :
                 /\ fs' = IF partial THEN WritePartial(w, h.temp_path) ELSE fs
                 /\ foreign' = IF partial
                               THEN foreign \cup Touched(w, h.temp_path, "overwrite")
                               ELSE foreign
                 /\ hnd' = [hnd EXCEPT ![w] =
                              [h EXCEPT !.idx = @ + 1, !.temp_path = NoPath,
                                        !.file_ext = "",
                                        !.results =
                                           AppendResult(@, Entry(h.idx, file.filename,
                                                           [error |-> "save"]))]]
                 /\ pc' = [pc EXCEPT ![w] = "batch_loop"]
                 /\ UNCHANGED <<pdf, img, page_texts, page_results>>
    /\ UNCHANGED <<now, req, result, response>>

\* result["filename"] = file.filename; results.append(result); the copy is deleted.
BatchAfter(w) ==
    /\ pc[w] = "batch_after"
    /\ LET h == hnd[w]
           file == req[w].files[h.idx]
       IN  /\ hnd' = [hnd EXCEPT ![w] =
                        [h EXCEPT !.idx = @ + 1, !.temp_path = NoPath, !.file_ext = "",
                                  !.results =
                                     AppendResult(@, Entry(h.idx, file.filename,
                                                           result[w]))]]
           /\ fs' = Unlink(h.temp_path)
           /\ foreign' = foreign \cup Touched(w, h.temp_path, "delete")
    /\ result' = [result EXCEPT ![w] = None]
    /\ pc' = [pc EXCEPT ![w] = "batch_loop"]
    /\ UNCHANGED <<now, req, pdf, img, page_texts, page_results, response>>

(* --------------------------- specifications --------------------------- *)

Step(w) ==
    \/ OcrValidate(w)
    \/ OcrSave(w)
    \/ OcrFinish(w)
    \/ BatchValidate(w)
    \/ BatchLoop(w)
    \/ BatchSave(w)
    \/ BatchAfter(w)
    \/ ImgPreprocess(w)
    \/ ImgData(w)
    \/ ImgString(w)
    \/ ImgReturn(w)
    \/ PdfConvert(w)
    \/ PdfLoop(w)
    \/ PdfPageDone(w)

\* One request served in isolation.
Next ==
    \/ Tick
    \/ Receive(1, Requests)
    \/ Step(1)

Spec == Init /\ [][Next]_vars

\* Two requests served at the same time by two workers.
NextConc ==
    \/ Tick
    \/ \E w \in Workers : Receive(w, ConcRequests)
    \/ \E w \in Workers : Step(w)

SpecConc == Init /\ [][NextConc]_vars

(* ------------------------------- claims ------------------------------- *)

Endpoint(w) == IF pc[w] = "idle" THEN "" ELSE req[w].endpoint

\* w has answered a /ocr/batch request with a BatchResult.
BatchDone(w) ==
    /\ pc[w] = "done"
    /\ Endpoint(w) = "batch"
    /\ response[w].status = 200

\* An item that is malformed or unsupported: empty filename or unsupported extension.
Malformed(file) ==
    file.filename = "" \/ Suffix(file.filename) \notin supported_formats

EntriesOf(rs, item) == {k \in DOMAIN rs : rs[k].item = item}

\* C1: a batch of K items of which M are malformed or unsupported, with no
\* failure on the other items, reports total_files = K, failed_files = M and
\* processed_files = K - M, and every malformed item has an error entry.
C1_BatchCountsMalformed ==
    \A w \in Workers :
        BatchDone(w) =>
            LET files == req[w].files
                body  == response[w].body
                rs    == body.batch_results
                K     == Len(files)
                M     == Cardinality({i \in DOMAIN files : Malformed(files[i])})
            IN  (\A k \in DOMAIN rs : ~Malformed(files[rs[k].item]) => ~HasError(rs[k]))
                => /\ body.total_files = K
                   /\ body.failed_files = M
                   /\ body.processed_files = K - M
                   /\ \A i \in DOMAIN files :
                         Malformed(files[i]) =>
                            \E k \in EntriesOf(rs, i) : HasError(rs[k])

\* C2: the entries of batch_results are in submission order, one entry at most
\* for an item, and each entry carries the filename of the item it was
\* produced from.
C2_BatchOrder ==
    \A w \in Workers :
        BatchDone(w) =>
            LET files == req[w].files
                rs    == response[w].body.batch_results
            IN  /\ \A a, b \in DOMAIN rs : a < b => rs[a].item < rs[b].item
                /\ \A a \in DOMAIN rs : rs[a].filename = files[rs[a].item].filename

C2_Witness ==
    \E w \in Workers :
        /\ BatchDone(w)
        /\ LET rs == response[w].body.batch_results
           IN  /\ Len(rs) >= 2
               /\ rs[1].filename # rs[2].filename
               /\ HasError(rs[1]) /\ ~HasError(rs[2])

\* C3: a failure on item i never aborts the batch: the failing item has an
\* entry with an error field, every item after i has its own outcome, the
\* answer is 200, and 400 is answered only when no files were sent.
C3_BatchIsolation ==
    \A w \in Workers :
        (pc[w] = "done" /\ Endpoint(w) = "batch") =>
            LET files == req[w].files
                rs    == response[w].body.batch_results
            IN  /\ response[w].status = 400 => files = <<>>
                /\ response[w].status = 200 =>
                      \A i \in DOMAIN files :
                         (\E k \in EntriesOf(rs, i) :
                              HasError(rs[k]) /\ ~Malformed(files[i]))
                         => \A j \in DOMAIN files :
                               j > i => Cardinality(EntriesOf(rs, j)) = 1

\* C4: no temp file created by a request remains after its response.
C4_NoTempFileLeft ==
    \A w \in Workers :
        pc[w] = "done" => ~ \E f \in fs : f.owner = w

\* C5: no request overwrites, reads or deletes a temp file that a different
\* in-flight request created.
C5_NoForeignAccess == foreign = {}

\* The uploaded file the extractor is working on, or has just returned from.
CurrentFile(w) ==
    IF req[w].endpoint = "ocr" THEN req[w].files[1] ELSE req[w].files[hnd[w].idx]

IsPdfResult(r) == "pages_processed" \in DOMAIN r

MarkerIndex(m) == CHOOSE i \in DOMAIN Markers : Markers[i] = m

\* C6: for a PDF that rasterizes to N pages the result has page_count = N and
\* pages_processed = the number of pages whose extracted text is not empty,
\* and the combined text has a page marker for exactly those pages, with
\* 1-based indices in strictly ascending order.
C6_PdfPages ==
    \A w \in Workers :
        IsPdfResult(result[w]) =>
            LET r        == result[w]
                pages    == CurrentFile(w).content
                texts    == page_texts[w]
                nonempty == {i \in DOMAIN texts : texts[i] # <<>>}
                ms       == SelectSeq(r.text, IsMarker)
            IN  /\ r.page_count = Len(pages)
                /\ Len(texts) = Len(pages)
                /\ r.pages_processed = Cardinality(nonempty)
                /\ {MarkerIndex(ms[k]) : k \in DOMAIN ms} = nonempty
                /\ \A k, l \in DOMAIN ms :
                      k < l => MarkerIndex(ms[k]) < MarkerIndex(ms[l])

\* The scenario of the spec: three pages, the second blank.
C6_Witness ==
    \E w \in Workers :
        /\ IsPdfResult(result[w])
        /\ result[w].page_count = 3
        /\ result[w].pages_processed = 2
        /\ Len(page_texts[w]) = 3
        /\ page_texts[w][2] = <<>>
        /\ CurrentFile(w).content[2] = Blank
        /\ SelectSeq(result[w].text, IsMarker) = <<Markers[1], Markers[3]>>

FailsValidation(r) ==
    \/ r.files = <<>>
    \/ r.files[1].filename = ""
    \/ r.files[1].size > max_file_size
    \/ Suffix(r.files[1].filename) \notin supported_formats

\* C7: a /ocr request that fails validation is answered with 400, and at no
\* point of its handling is a temp file created or an extraction invoked.
C7_ValidationRejects ==
    \A w \in Workers :
        (Endpoint(w) = "ocr" /\ FailsValidation(req[w])) =>
            /\ pc[w] \in {"ocr_validate", "done"}
            /\ ~ \E f \in fs : f.owner = w
            /\ pc[w] = "done" => response[w].status = 400

\* w has answered a /ocr request for an image with an extraction result.
OcrImageDone(w) ==
    /\ pc[w] = "done"
    /\ Endpoint(w) = "ocr"
    /\ response[w].status = 200
    /\ Suffix(req[w].files[1].filename) # ".pdf"
    /\ ~HasError(response[w].body)

RECURSIVE SumAt(_, _)
SumAt(f, S) ==
    IF S = {} THEN 0
    ELSE LET i == CHOOSE j \in S : TRUE IN f[i] + SumAt(f, S \ {i})

Abs(x) == IF x < 0 THEN -x ELSE x

\* C8: the confidence of an image result lies in [0, 100], is the mean of
\* exactly the token confidences greater than 0, to the two decimals the
\* result keeps, and is 0 when no token has a confidence greater than 0.
C8_ConfidenceMean ==
    \A w \in Workers :
        OcrImageDone(w) =>
            LET conf  == req[w].files[1].content[1].conf
                pos   == {i \in DOMAIN conf : conf[i] > 0}
                n     == Cardinality(pos)
                total == SumAt(conf, pos)
                c     == response[w].body.confidence
            IN  /\ 0 <= c /\ c <= 100 * 100
                /\ n = 0 => c = 0
                /\ n > 0 => 2 * Abs(n * c - 100 * total) <= n

C8_Witness ==
    \E w \in Workers :
        /\ OcrImageDone(w)
        /\ req[w].files[1].content[1].conf = <<33, 0, 100>>
        /\ response[w].body.confidence = 6650

\* The engine returns nothing: no token with a confidence above 0 and no text
\* but whitespace.
EngineReturnsNothing(content) ==
    /\ \A i \in DOMAIN content.conf : content.conf[i] <= 0
    /\ \A i \in DOMAIN content.text : IsSpace(content.text[i])

ErrorShape(r) ==
    HasError(r) =>
        r.text = <<>> /\ r.confidence = 0 /\ r.word_count = 0 /\ r.char_count = 0

\* The extractors' results in the state: the value just returned, the body of
\* a /ocr answer, the entries of a batch that an extractor produced.
ExtractionResults(w) ==
    {result[w]}
    \cup (IF pc[w] = "done" /\ response[w].status = 200
          THEN IF req[w].endpoint = "ocr" THEN {response[w].body}
               ELSE {response[w].body.batch_results[k] :
                        k \in DOMAIN response[w].body.batch_results}
          ELSE {})
    \cup {hnd[w].results[k] : k \in DOMAIN hnd[w].results}

\* w's extractor call ends in this step other than by its normal return.
EngineFails(w) ==
    \/ /\ pc[w] \in {"img_data", "img_string"}
       /\ pc'[w] \notin {"img_data", "img_string", "img_cleanup"}
    \/ /\ pc[w] = "pdf_convert"
       /\ pc'[w] \notin {"pdf_convert", "pdf_loop"}

\* C10: a failure of an engine call inside extract_text_from_image or
\* extract_text_from_pdf does not propagate: the caller continues with a result
\* that carries an error field and no response is made by the failure; and
\* every extraction result with an error field has empty text, confidence 0,
\* word_count 0 and char_count 0.
C10_EngineFailureLocal ==
    /\ [](\A w \in Workers :
            \A r \in ExtractionResults(w) : "text" \in DOMAIN r => ErrorShape(r))
    /\ [][\A w \in Workers :
            EngineFails(w) =>
               /\ pc'[w] \in {"ocr_finish", "batch_after", "pdf_page_done"}
               /\ HasError(result'[w])
               /\ ErrorShape(result'[w])
               /\ response'[w] = response[w]]_vars

C10_Witness ==
    \E w \in Workers :
        /\ pc[w] = "batch_after"
        /\ HasError(result[w])
        /\ "page_count" \notin DOMAIN result[w]

\* The rasterized page images (page_<n>.png) that w's document has in the temp
\* directory.
PageImages(w) ==
    {f \in fs : f.owner = w /\ f.path.kind = "page" /\ ~f.path.processed}

\* C11: within one PDF the pages are processed one after another: at every
\* moment at most one rasterized page image of the document exists, it is the
\* image of the page being extracted, and none exists when the loop turns to
\* the next page; page n's image is written only when the extractions of the
\* pages before it have all completed and no page image is left; a page image
\* is deleted only by the step that follows the return of its page's
\* extraction, whether that returned a text or an error result.
C11_PagesOneAtATime ==
    /\ [](\A w \in Workers :
            /\ Cardinality(PageImages(w)) <= 1
            /\ pc[w] = "pdf_loop" => PageImages(w) = {}
            /\ \A f \in PageImages(w) :
                  /\ pc[w] \in {"img_preprocess", "img_data", "img_string",
                                "img_cleanup", "pdf_page_done"}
                  /\ f.path = PagePath(pdf[w].i + 1))
    /\ [][\A w \in Workers :
            /\ \A f \in PageImages(w)' \ PageImages(w) :
                  /\ PageImages(w) = {}
                  /\ Len(page_texts[w]) = f.path.n - 1
            /\ \A f \in PageImages(w) \ PageImages(w)' :
                  /\ pc[w] = "pdf_page_done"
                  /\ "text" \in DOMAIN result[w]
                  /\ Len(page_texts'[w]) = f.path.n
                  /\ pc'[w] = "pdf_loop"]_vars

\* The second page of a PDF is at the end of its extraction, which failed: its
\* image is there and the first page's image is gone.
C11_Witness ==
    \E w \in Workers :
        /\ pc[w] = "pdf_page_done"
        /\ HasError(result[w])
        /\ Len(page_texts[w]) = 1
        /\ PageImages(w) # {}
        /\ \A f \in PageImages(w) : f.path = PagePath(2)

\* C12: the confidence of a PDF result lies in [0, 100], is 0 when no page
\* contributed, and is otherwise the mean of the confidences of exactly the
\* pages whose extracted text is not empty, to the two decimals the result
\* keeps: the pages with empty text are in neither the sum nor the count.
C12_PdfConfidenceMean ==
    \A w \in Workers :
        IsPdfResult(result[w]) =>
            LET texts    == page_texts[w]
                confs    == [i \in DOMAIN page_results[w] |->
                                page_results[w][i].confidence]
                nonempty == {i \in DOMAIN texts : texts[i] # <<>>}
                n        == Cardinality(nonempty)
                total    == SumAt(confs, nonempty)
                c        == result[w].confidence
            IN  /\ DOMAIN confs = DOMAIN texts
                /\ 0 <= c /\ c <= 100 * 100
                /\ n = 0 => c = 0
                /\ n > 0 => 2 * Abs(n * c - total) <= n

\* Three pages: the first at 90.50, the second with a token recognised at 50
\* but no text, the third at 33.00; the result is their mean over two, 61.75.
C12_Witness ==
    \E w \in Workers :
        /\ IsPdfResult(result[w])
        /\ page_texts[w] = <<Strip(TextA.text), <<>>, Strip(TextB.text)>>
        /\ page_results[w][1].confidence = 9050
        /\ page_results[w][2].confidence = 5000
        /\ page_results[w][3].confidence = 3300
        /\ result[w].confidence = 6175

\* The image an extraction of w that has returned was called with.
ExtractedImage(w) ==
    IF pc[w] = "pdf_page_done" THEN pdf[w].page_path ELSE hnd[w].temp_path

\* C13: a failure at any stage of preprocess_image is not fatal: the original
\* image path is returned, so that the engine calls of the extraction run on
\* the original image, which is there to be read; and when an extraction has
\* returned, its cleanup of the processed image has not deleted the image it
\* was called with.
C13_PreprocessFailureNonFatal ==
    \A w \in Workers :
        /\ (pc[w] \in {"img_data", "img_string", "img_cleanup"} /\ img[w].failed)
              => /\ img[w].processed_path = img[w].image_path
                 /\ Readable(img[w].processed_path)
        /\ pc[w] \in {"ocr_finish", "batch_after", "pdf_page_done"}
              => Exists(ExtractedImage(w))

\* The indices in S, ascending, of a sequence of length n.
Ascending(S, n) == SelectSeq([i \in 1..n |-> i], LAMBDA i : i \in S)

\* C14: when a PDF was rasterized and the engine failed on pages of it, every
\* page still has its page result; the pages that failed are left out like
\* empty pages: the combined text is made of the pages that did not fail and
\* have text, in order under their markers, the confidence is the mean over
\* those pages to two decimals (0 if there are none), pages_processed counts
\* them and is below page_count when a page failed; the result has no error
\* field, and /ocr/batch counts the file as processed, not failed.
C14_PageFailureSilent ==
    \A w \in Workers :
        /\ IsPdfResult(result[w]) =>
              LET r       == result[w]
                  prs     == page_results[w]
                  failedp == {i \in DOMAIN prs : HasError(prs[i])}
                  kept    == {i \in DOMAIN prs :
                                 ~HasError(prs[i]) /\ prs[i].text # <<>>}
                  order   == Ascending(kept, Len(prs))
                  n       == Cardinality(kept)
                  total   == SumAt([i \in DOMAIN prs |-> prs[i].confidence], kept)
              IN  /\ Len(prs) = Len(CurrentFile(w).content)
                  /\ r.page_count = Len(prs)
                  /\ ~HasError(r)
                  /\ r.text = Join([k \in DOMAIN order |->
                                      PageEntry(order[k] - 1, prs[order[k]].text)])
                  /\ r.pages_processed = n
                  /\ failedp # {} => r.pages_processed < r.page_count
                  /\ n = 0 => r.confidence = 0
                  /\ n > 0 => 2 * Abs(n * r.confidence - total) <= n
        /\ BatchDone(w) =>
              LET body == response[w].body
                  rs   == body.batch_results
                  ok   == {k \in DOMAIN rs : ~HasError(rs[k])}
              IN  /\ {k \in DOMAIN rs : IsPdfResult(rs[k])} \subseteq ok
                  /\ body.processed_files = Cardinality(ok)
                  /\ body.failed_files = Len(rs) - Cardinality(ok)

\* A batch of one two-page PDF: the engine failed on the first page, the
\* second was extracted, and the file is counted as processed.
C14_Witness ==
    \E w \in Workers :
        /\ BatchDone(w)
        /\ Len(page_results[w]) = 2
        /\ HasError(page_results[w][1])
        /\ page_results[w][2].text # <<>>
        /\ LET body == response[w].body
           IN  /\ Len(body.batch_results) = 1
               /\ IsPdfResult(body.batch_results[1])
               /\ body.batch_results[1].page_count = 2
               /\ body.batch_results[1].pages_processed = 1
               /\ body.processed_files = 1
               /\ body.failed_files = 0

====
